---------------------------- MODULE Spec2Model ----------------------------
(***************************************************************************)
(* A model of the QOI codec of src/src/lib.rs: the operator codec          *)
(* (QoiOp::append_bytes, QoiOp::from_bytes), Pixel::hash, the Encoder and  *)
(* the Decoder.  Encoder::encode and Decoder::decode are modelled loop     *)
(* iteration by loop iteration; the Encoder and the Decoder are objects    *)
(* that outlive a call, as `&mut self` makes them in the source.           *)
(*                                                                         *)
(* u8 values are naturals in 0..255 with arithmetic modulo 256.  A u32 is  *)
(* kept as its four base-256 digits, least significant first, because the  *)
(* decoder multiplies two arbitrary u32 values and the product does not    *)
(* fit the model checker's integers.                                       *)
(***************************************************************************)
EXTENDS Integers, Sequences, FiniteSets, TLC

(***************************************************************************)
(* u8 arithmetic (std::num::Wrapping<u8>)                                  *)
(***************************************************************************)
U8 == 0..255

WrapAdd(x, y) == (x + y) % 256

\* A subtraction that stops at 0 instead of wrapping.
WrapSub_saturating(x, y) == IF x < y THEN 0 ELSE x - y

WrapSub(x, y) == (x + 256 - y) % 256

WrapMul(x, y) == (x * y) % 256

(***************************************************************************)
(* u32 values as four base-256 digits, least significant digit first       *)
(***************************************************************************)
U32Of(d0, d1, d2, d3) == <<d0, d1, d2, d3>>

\* A natural below 2^31 as a u32.
NatToU32(n) == <<n % 256, (n \div 256) % 256, (n \div 65536) % 256, (n \div 16777216) % 256>>

\* A to_be_bytes that writes the least significant byte first.
to_le_bytes(u) == <<u[1], u[2], u[3], u[4]>>

\* u32::to_be_bytes: most significant byte first.
to_be_bytes(u) == <<u[4], u[3], u[2], u[1]>>

\* u32::from_be_bytes on a 4-byte chunk.
from_be_bytes(bytes) == <<bytes[4], bytes[3], bytes[2], bytes[1]>>

\* The eight digits of the exact product of two u32 values.
FullMul(x, y) ==
    LET digit(u, i) == IF i \in 1..4 THEN u[i] ELSE 0
        col(k) == x[1] * digit(y, k + 1) + x[2] * digit(y, k) + x[3] * digit(y, k - 1)
                      + x[4] * digit(y, k - 2)
        s0 == col(0)
        s1 == col(1) + (s0 \div 256)
        s2 == col(2) + (s1 \div 256)
        s3 == col(3) + (s2 \div 256)
        s4 == col(4) + (s3 \div 256)
        s5 == col(5) + (s4 \div 256)
        s6 == col(6) + (s5 \div 256)
        s7 == s6 \div 256
    IN <<s0 % 256, s1 % 256, s2 % 256, s3 % 256, s4 % 256, s5 % 256, s6 % 256, s7 % 256>>

\* `width * height` on u32 in a build without overflow checks: the low 32 bits.
wrapping_mul(x, y) == SubSeq(FullMul(x, y), 1, 4)

\* Whether `width * height` on u32 overflows.
MulOverflows(x, y) == SubSeq(FullMul(x, y), 5, 8) # <<0, 0, 0, 0>>

\* `(n as usize) < (u as usize)` for a vector length n (below 2^31) and a u32 u.
LenLess(n, u) ==
    \E m \in {NatToU32(n)}, v \in {u} :
       \/ m[4] < v[4]
       \/ m[4] = v[4] /\ m[3] < v[3]
       \/ m[4] = v[4] /\ m[3] = v[3] /\ m[2] < v[2]
       \/ m[4] = v[4] /\ m[3] = v[3] /\ m[2] = v[2] /\ m[1] < v[1]

LenGreater(n, u) == \E v \in {u} : ~LenLess(n, v) /\ NatToU32(n) # v

(***************************************************************************)
(* Pixel                                                                   *)
(***************************************************************************)
Pixel_new(r, g, b, a) == [r |-> r, g |-> g, b |-> b, a |-> a]

\* A hash that leaves the alpha out.
hash_rgb(p) == WrapAdd(WrapAdd(WrapMul(p.r, 3), WrapMul(p.g, 5)), WrapMul(p.b, 7)) % 64

\* ((r*3 + g*5 + b*7 + a*11) mod 256) mod 64: the source's arithmetic is on
\* Wrapping<u8>, so every product and sum is reduced modulo 256.
hash(p) ==
    WrapAdd(WrapAdd(WrapAdd(WrapMul(p.r, 3), WrapMul(p.g, 5)), WrapMul(p.b, 7)),
            WrapMul(p.a, 11)) % 64

\* The pixel both predictors start from.
InitPixel == Pixel_new(0, 0, 0, 255)

\* [Pixel::new(0, 0, 0, 255); 64]
InitCache == [i \in 0..63 |-> InitPixel]

(***************************************************************************)
(* QoiOp and its byte codec                                                *)
(***************************************************************************)
OpRGB(r, g, b) == [tag |-> "RGB", f1 |-> r, f2 |-> g, f3 |-> b, f4 |-> 0]

OpRGBA(r, g, b, a) == [tag |-> "RGBA", f1 |-> r, f2 |-> g, f3 |-> b, f4 |-> a]

OpIndex(idx) == [tag |-> "Index", f1 |-> idx, f2 |-> 0, f3 |-> 0, f4 |-> 0]

OpDiff(dr, dg, db) == [tag |-> "Diff", f1 |-> dr, f2 |-> dg, f3 |-> db, f4 |-> 0]

OpLuma(dg, dr_dg, db_dg) == [tag |-> "Luma", f1 |-> dg, f2 |-> dr_dg, f3 |-> db_dg, f4 |-> 0]

OpRun(len) == [tag |-> "Run", f1 |-> len, f2 |-> 0, f3 |-> 0, f4 |-> 0]

\* Bit operations on u8.
Shl(x, k) == (x * (2 ^ k)) % 256

Shr(x, k) == x \div (2 ^ k)

RECURSIVE BitAnd(_, _)
BitAnd(x, y) == IF x = 0 \/ y = 0 THEN 0
                ELSE (x % 2) * (y % 2) + 2 * BitAnd(x \div 2, y \div 2)

RECURSIVE BitOr(_, _)
BitOr(x, y) == IF x = 0 THEN y
               ELSE IF y = 0 THEN x
               ELSE (IF x % 2 = 1 \/ y % 2 = 1 THEN 1 ELSE 0) + 2 * BitOr(x \div 2, y \div 2)

\* The outcome of a serialization: the buffer, or a failed assertion (or, in
\* a build with overflow checks, a failed subtraction).
Appended(buf) == [ok |-> TRUE, buf |-> buf]

AppendPanic == [ok |-> FALSE, buf |-> <<>>]

\* assert!(idx <= 62)
IndexAccepted(idx) == idx <= 62

\* assert!(dr <= 3 && dg <= 3 && db <= 3)
DiffAccepted(dr, dg, db) == dr <= 3 /\ dg <= 3 /\ db <= 3

\* assert!(dg < 64 && dr_dg < 16 && db_dg < 16)
LumaAccepted(dg, dr_dg, db_dg) == dg < 64 /\ dr_dg < 16 /\ db_dg < 16

\* assert!(len <= 62)
RunAccepted(len) == len <= 62

\* QoiOp::append_bytes.  checks: the build has overflow checks, so `len - 1`
\* on len = 0 panics instead of wrapping.
append_bytes(op, buf, checks) ==
    CASE op.tag = "RGB" -> Appended(buf \o <<254, op.f1, op.f2, op.f3>>)
      [] op.tag = "RGBA" -> Appended(buf \o <<255, op.f1, op.f2, op.f3, op.f4>>)
      [] op.tag = "Index" ->
            IF IndexAccepted(op.f1)
            THEN Appended(Append(buf, BitOr(Shl(0, 6), op.f1)))
            ELSE AppendPanic
      [] op.tag = "Diff" ->
            IF DiffAccepted(op.f1, op.f2, op.f3)
            THEN Appended(Append(buf,
                    BitOr(BitOr(BitOr(Shl(1, 6), Shl(op.f1, 4)), Shl(op.f2, 2)), Shl(op.f3, 0))))
            ELSE AppendPanic
      [] op.tag = "Luma" ->
            IF LumaAccepted(op.f1, op.f2, op.f3)
            THEN Appended(buf \o <<BitOr(Shl(2, 6), op.f1), BitOr(Shl(op.f2, 4), op.f3)>>)
            ELSE AppendPanic
      [] op.tag = "Run" ->
            IF ~RunAccepted(op.f1) THEN AppendPanic
            ELSE IF op.f1 = 0 /\ checks THEN AppendPanic
            ELSE Appended(Append(buf, BitOr(Shl(3, 6), WrapSub(op.f1, 1))))

\* The outcome of a parse: an operator and the bytes after it, or None.
Parsed(op, rest) == [some |-> TRUE, op |-> op, rest |-> rest]

ParseNone == [some |-> FALSE, op |-> OpRun(0), rest |-> <<>>]

\* A parse that tries the Run arm before the RGB and RGBA arms.
from_bytes_run_first(buf) ==
    IF Len(buf) < 1 THEN ParseNone
    ELSE LET head == Head(buf)
             rest == Tail(buf)
             hi == Shr(head, 6)
             lo == BitAnd(head, 63)
         IN CASE hi = 3 -> Parsed(OpRun(lo + 1), rest)
              [] hi = 0 -> Parsed(OpIndex(lo), rest)
              [] hi = 1 ->
                    Parsed(OpDiff(BitAnd(Shr(lo, 4), 3), BitAnd(Shr(lo, 2), 3),
                                  BitAnd(Shr(lo, 0), 3)), rest)
              [] hi = 2 ->
                    IF Len(rest) < 1 THEN ParseNone
                    ELSE Parsed(OpLuma(lo, BitAnd(Shr(rest[1], 4), 15),
                                       BitAnd(Shr(rest[1], 0), 15)), Tail(rest))

\* QoiOp::from_bytes
from_bytes(buf) ==
    IF Len(buf) < 1 THEN ParseNone
    ELSE LET head == Head(buf)
             rest == Tail(buf)
             hi == Shr(head, 6)
             lo == BitAnd(head, 63)
         IN CASE hi = 3 /\ lo = 62 ->
                    IF Len(rest) < 3 THEN ParseNone
                    ELSE Parsed(OpRGB(rest[1], rest[2], rest[3]), SubSeq(rest, 4, Len(rest)))
              [] hi = 3 /\ lo = 63 ->
                    IF Len(rest) < 4 THEN ParseNone
                    ELSE Parsed(OpRGBA(rest[1], rest[2], rest[3], rest[4]),
                                SubSeq(rest, 5, Len(rest)))
              [] hi = 0 -> Parsed(OpIndex(lo), rest)
              [] hi = 1 ->
                    Parsed(OpDiff(BitAnd(Shr(lo, 4), 3), BitAnd(Shr(lo, 2), 3),
                                  BitAnd(Shr(lo, 0), 3)), rest)
              [] hi = 2 ->
                    IF Len(rest) < 1 THEN ParseNone
                    ELSE Parsed(OpLuma(lo, BitAnd(Shr(rest[1], 4), 15),
                                       BitAnd(Shr(rest[1], 0), 15)), Tail(rest))
              [] hi = 3 /\ lo < 62 -> Parsed(OpRun(lo + 1), rest)

(***************************************************************************)
(* Encoder                                                                 *)
(***************************************************************************)
\* Encoder::new
Encoder_new(width, height) ==
    [width |-> width, height |-> height, channels |-> 4, colorspace |-> 0,
     cache |-> InitCache, prev |-> InitPixel]

\* Encoder::append_header
append_header(enc, buf) ==
    buf \o <<113, 111, 105, 102>> \o to_be_bytes(enc.width) \o to_be_bytes(enc.height)
        \o <<enc.channels, enc.colorspace>>

\* The footer both sides use.
Footer == <<0, 0, 0, 0, 0, 0, 0, 1>>

\* The frame of a call of Encoder::encode: its locals and where it stands
\* (pc: "idle", "body" (the for loop), "done" (returned buf), "panic").
\* fresh records that the call began on an encoder no call had used, and
\* first_prev the prev the call found.
EncIdle ==
    [pc |-> "idle", img |-> <<>>, i |-> 1, is_running |-> FALSE, run_length |-> 0,
     ops |-> <<>>, buf |-> <<>>, fresh |-> TRUE, first_prev |-> InitPixel]

\* A run test that lets the pending run grow to 63.
RunIsFull_late(run_length) == run_length > 62

\* `run_length >= 62`: the pending run is full and is pushed as Run{62}.
RunIsFull(run_length) == run_length >= 62

\* `da == 0 && 0 <= dr && dr <= 3 && ...` on the deltas biased by 2.
DiffFits(da, dr, dg, db) == da = 0 /\ 0 <= dr /\ dr <= 3 /\ 0 <= dg /\ dg <= 3 /\ 0 <= db /\ db <= 3

\* `da == 0 && 0 <= dg && dg < 64 && ...` on the biased luma fields.
LumaFits(da, dg, dr_dg, db_dg) ==
    da = 0 /\ 0 <= dg /\ dg < 64 /\ 0 <= dr_dg /\ dr_dg < 16 /\ 0 <= db_dg /\ db_dg < 16

\* A selection that tries Luma before Diff.
PixelOp_luma_first(cache, prev, pixel) ==
    LET h == hash(pixel)
        dr2 == WrapAdd(WrapSub(pixel.r, prev.r), 2)
        dg2 == WrapAdd(WrapSub(pixel.g, prev.g), 2)
        db2 == WrapAdd(WrapSub(pixel.b, prev.b), 2)
        da == WrapSub(pixel.a, prev.a)
        dg == WrapSub(pixel.g, prev.g)
        dr == WrapSub(pixel.r, prev.r)
        db == WrapSub(pixel.b, prev.b)
        dr_dg == WrapSub(WrapAdd(8, dr), dg)
        db_dg == WrapSub(WrapAdd(8, db), dg)
        dg32 == WrapAdd(32, dg)
    IN IF cache[h] = pixel THEN OpIndex(h)
       ELSE IF LumaFits(da, dg32, dr_dg, db_dg) THEN OpLuma(dg32, dr_dg, db_dg)
       ELSE IF DiffFits(da, dr2, dg2, db2) THEN OpDiff(dr2, dg2, db2)
       ELSE IF da = 0 THEN OpRGB(pixel.r, pixel.g, pixel.b)
       ELSE OpRGBA(pixel.r, pixel.g, pixel.b, pixel.a)

\* The operator pushed for a pixel that differs from prev.
PixelOp(cache, prev, pixel) ==
    LET h == hash(pixel)
        dr2 == WrapAdd(WrapSub(pixel.r, prev.r), 2)
        dg2 == WrapAdd(WrapSub(pixel.g, prev.g), 2)
        db2 == WrapAdd(WrapSub(pixel.b, prev.b), 2)
        da == WrapSub(pixel.a, prev.a)
        dg == WrapSub(pixel.g, prev.g)
        dr == WrapSub(pixel.r, prev.r)
        db == WrapSub(pixel.b, prev.b)
        dr_dg == WrapSub(WrapAdd(8, dr), dg)
        db_dg == WrapSub(WrapAdd(8, db), dg)
        dg32 == WrapAdd(32, dg)
    IN IF cache[h] = pixel THEN OpIndex(h)
       ELSE IF DiffFits(da, dr2, dg2, db2) THEN OpDiff(dr2, dg2, db2)
       ELSE IF LumaFits(da, dg32, dr_dg, db_dg) THEN OpLuma(dg32, dr_dg, db_dg)
       ELSE IF da = 0 THEN OpRGB(pixel.r, pixel.g, pixel.b)
       ELSE OpRGBA(pixel.r, pixel.g, pixel.b, pixel.a)

\* One iteration of the `for pixel in img` loop on pixel img[i]: the encoder
\* object and the frame after it.  The encoder's cache is read and never
\* written.
EncodePixelStep(enc, call) ==
    LET pixel == call.img[call.i]
        prev == enc.prev
        enc1 == [enc EXCEPT !.prev = pixel]
        next == [call EXCEPT !.i = call.i + 1]
        \* the `if is_running` block when the pixel ends the run
        flushed == IF call.is_running
                   THEN [next EXCEPT !.is_running = FALSE,
                                     !.ops = IF call.run_length > 0
                                             THEN Append(call.ops, OpRun(call.run_length))
                                             ELSE call.ops]
                   ELSE next
    IN IF call.is_running /\ prev = pixel
       THEN [enc |-> enc1,
             call |-> IF RunIsFull(call.run_length)
                      THEN [next EXCEPT !.ops = Append(call.ops, OpRun(62)),
                                        !.run_length = (call.run_length - 62) + 1]
                      ELSE [next EXCEPT !.run_length = call.run_length + 1]]
       ELSE IF prev = pixel
       THEN [enc |-> enc1,
             call |-> IF flushed.is_running
                      THEN [flushed EXCEPT !.pc = "panic"]
                      ELSE [flushed EXCEPT !.is_running = TRUE, !.run_length = 1]]
       ELSE [enc |-> enc1,
             call |-> [flushed EXCEPT !.ops = Append(flushed.ops, PixelOp(enc.cache, prev, pixel))]]

\* Encoder::encode up to the loop: the header, the locals.
EncodeBeginStep(enc, img) ==
    [EncIdle EXCEPT !.pc = "body", !.img = img, !.buf = append_header(enc, <<>>),
                    !.first_prev = enc.prev]

\* `for op in ops { op.append_bytes(&mut buf) }`
RECURSIVE AppendAll(_, _, _)
AppendAll(ops, buf, checks) ==
    IF ops = <<>> THEN Appended(buf)
    ELSE LET r == append_bytes(Head(ops), buf, checks)
         IN IF r.ok THEN AppendAll(Tail(ops), r.buf, checks) ELSE AppendPanic

\* An end of the call that drops the pending run.
EncodeFinishStep_noflush(call, checks) ==
    LET r == AppendAll(call.ops, call.buf, checks)
    IN IF r.ok
       THEN [call EXCEPT !.pc = "done", !.buf = r.buf \o Footer]
       ELSE [call EXCEPT !.pc = "panic"]

\* Encoder::encode after the loop: the pending run, the operators' bytes, the
\* footer.
EncodeFinishStep(call, checks) ==
    LET ops == IF call.is_running THEN Append(call.ops, OpRun(call.run_length)) ELSE call.ops
        r == AppendAll(ops, call.buf, checks)
    IN IF r.ok
       THEN [call EXCEPT !.pc = "done", !.ops = ops, !.buf = r.buf \o Footer]
       ELSE [call EXCEPT !.pc = "panic", !.ops = ops]

\* A whole call of Encoder::encode on an encoder object.
RECURSIVE EncodeLoop(_, _, _)
EncodeLoop(enc, call, checks) ==
    IF call.pc # "body" THEN [enc |-> enc, call |-> call]
    ELSE IF call.i <= Len(call.img)
    THEN LET s == EncodePixelStep(enc, call) IN EncodeLoop(s.enc, s.call, checks)
    ELSE [enc |-> enc, call |-> EncodeFinishStep(call, checks)]

Encode(enc, img, checks) == EncodeLoop(enc, EncodeBeginStep(enc, img), checks)

(***************************************************************************)
(* Decoder                                                                 *)
(***************************************************************************)
\* Decoder::new
Decoder_new == [cache |-> InitCache, prev |-> InitPixel]

U32Zero == NatToU32(0)

\* Option<Image<Pixel>>
NoImage == [some |-> FALSE, width |-> U32Zero, height |-> U32Zero, pixels |-> <<>>]

SomeImage(width, height, pixels) ==
    [some |-> TRUE, width |-> width, height |-> height, pixels |-> pixels]

\* The frame of a call of Decoder::decode.  pc: "idle", "body" (the while
\* loop), "done" (returned, result is the value), "panic".  ret names the
\* return statement that ended the call: "short" (a `?` of the header),
\* "magic", "parse" (the `?` on from_bytes), "index" (the `?` on cache.get),
\* "count", "footer", "ok".  input is the slice the call was given and data
\* what is left of it.  fresh records that the call began on a decoder no
\* call had used, from_encoder that its input is what encode returned.
DecIdle ==
    [pc |-> "idle", ret |-> "", input |-> <<>>, data |-> <<>>, width |-> U32Zero,
     height |-> U32Zero, pixels |-> <<>>, result |-> NoImage,
     fresh |-> TRUE, from_encoder |-> FALSE]

DecReturn(call, ret, result) == [call EXCEPT !.pc = "done", !.ret = ret, !.result = result]

\* Of a magic of four bytes: it is b"qoif".
MagicOk(magic) == magic = <<113, 111, 105, 102>>

\* A header without its channels and colorspace bytes.
HeaderLen_short == 4 + 4 + 4

\* The bytes a header needs: 4 of magic, 4 of width, 4 of height, channels,
\* colorspace.
HeaderLen == 14

\* Decoder::decode up to the loop: the header.  With overflow checks the
\* product width * height of `Vec::with_capacity` panics when it overflows.
DecodeBeginStep(input, checks) ==
    LET call == [DecIdle EXCEPT !.input = input, !.data = input]
    IN IF Len(input) < 4 THEN DecReturn(call, "short", NoImage)
       ELSE IF ~MagicOk(SubSeq(input, 1, 4)) THEN DecReturn(call, "magic", NoImage)
       ELSE IF Len(input) < HeaderLen THEN DecReturn(call, "short", NoImage)
       ELSE LET width == from_be_bytes(SubSeq(input, 5, 8))
                height == from_be_bytes(SubSeq(input, 9, 12))
                body == [call EXCEPT !.pc = "body", !.width = width, !.height = height,
                                     !.data = SubSeq(input, HeaderLen + 1, Len(input))]
            IN IF checks /\ MulOverflows(width, height)
               THEN [body EXCEPT !.pc = "panic"]
               ELSE body

\* A match whose RGB arm takes the alpha of Pixel::default instead of prev's.
OpPixel_rgb_clear(dec, op) ==
    CASE op.tag = "RGB" -> Pixel_new(op.f1, op.f2, op.f3, 0)
      [] op.tag = "RGBA" -> Pixel_new(op.f1, op.f2, op.f3, op.f4)
      [] op.tag = "Index" -> dec.cache[op.f1]
      [] op.tag = "Diff" ->
            Pixel_new(WrapSub(WrapAdd(dec.prev.r, op.f1), 2),
                      WrapSub(WrapAdd(dec.prev.g, op.f2), 2),
                      WrapSub(WrapAdd(dec.prev.b, op.f3), 2), dec.prev.a)
      [] op.tag = "Luma" ->
            LET dg == WrapSub(op.f1, 32)
                dr == WrapSub(WrapAdd(op.f2, dg), 8)
                db == WrapSub(WrapAdd(op.f3, dg), 8)
            IN Pixel_new(WrapAdd(dec.prev.r, dr), WrapAdd(dec.prev.g, dg),
                         WrapAdd(dec.prev.b, db), dec.prev.a)
      [] op.tag = "Run" -> dec.prev

\* The pixel an operator produces from the decoder's predictor.
OpPixel(dec, op) ==
    CASE op.tag = "RGB" -> Pixel_new(op.f1, op.f2, op.f3, dec.prev.a)
      [] op.tag = "RGBA" -> Pixel_new(op.f1, op.f2, op.f3, op.f4)
      [] op.tag = "Index" -> dec.cache[op.f1]
      [] op.tag = "Diff" ->
            Pixel_new(WrapSub(WrapAdd(dec.prev.r, op.f1), 2),
                      WrapSub(WrapAdd(dec.prev.g, op.f2), 2),
                      WrapSub(WrapAdd(dec.prev.b, op.f3), 2), dec.prev.a)
      [] op.tag = "Luma" ->
            LET dg == WrapSub(op.f1, 32)
                dr == WrapSub(WrapAdd(op.f2, dg), 8)
                db == WrapSub(WrapAdd(op.f3, dg), 8)
            IN Pixel_new(WrapAdd(dec.prev.r, dr), WrapAdd(dec.prev.g, dg),
                         WrapAdd(dec.prev.b, db), dec.prev.a)
      [] op.tag = "Run" -> dec.prev

\* A count that leaves out the first pixel of a Run.
OpCount_short(op) == IF op.tag = "Run" THEN op.f1 - 1 ELSE 1

\* The number of pixels an operator pushes.
OpCount(op) == IF op.tag = "Run" THEN op.f1 ELSE 1

\* A loop condition that stops one pixel early.
MorePixels_early(call) == LenLess(Len(call.pixels) + 1, wrapping_mul(call.width, call.height))

\* The loop's condition, `pixels.len() < (width * height) as usize`; the
\* product wraps (a build with overflow checks never gets here when it
\* overflows).
MorePixels(call) == LenLess(Len(call.pixels), wrapping_mul(call.width, call.height))

\* One iteration of the while loop: the decoder object and the frame after it.
DecodeOpStep(dec, call) ==
    LET parsed == from_bytes(call.data)
    IN IF ~parsed.some THEN [dec |-> dec, call |-> DecReturn(call, "parse", NoImage)]
       ELSE IF parsed.op.tag = "Index" /\ parsed.op.f1 \notin DOMAIN dec.cache
       THEN [dec |-> dec, call |-> DecReturn(call, "index", NoImage)]
       ELSE LET pixel == OpPixel(dec, parsed.op)
                h == hash(pixel)
            IN [dec |-> [dec EXCEPT !.prev = pixel, !.cache[h] = pixel],
                call |-> [call EXCEPT !.data = parsed.rest,
                                      !.pixels = call.pixels \o
                                                 [k \in 1..OpCount(parsed.op) |-> pixel]]]

\* A footer test that looks at the next eight bytes only.
FooterOk_prefix(data) == Len(data) >= 8 /\ SubSeq(data, 1, 8) = Footer

\* `[0u8, 0, 0, 0, 0, 0, 0, 1].ne(data)` does not hold.
FooterOk(data) == Footer = data

\* Decoder::decode after the loop: the count, the footer.
DecodeFinishStep(call) ==
    IF LenGreater(Len(call.pixels), wrapping_mul(call.width, call.height))
    THEN DecReturn(call, "count", NoImage)
    ELSE IF ~FooterOk(call.data) THEN DecReturn(call, "footer", NoImage)
    ELSE DecReturn(call, "ok", SomeImage(call.width, call.height, call.pixels))

\* A whole call of Decoder::decode on a decoder object.
RECURSIVE DecodeLoop(_, _)
DecodeLoop(dec, call) ==
    IF call.pc # "body" THEN [dec |-> dec, call |-> call]
    ELSE IF MorePixels(call)
    THEN LET s == DecodeOpStep(dec, call) IN DecodeLoop(s.dec, s.call)
    ELSE [dec |-> dec, call |-> DecodeFinishStep(call)]

Decode(dec, input, checks) == DecodeLoop(dec, DecodeBeginStep(input, checks))

(***************************************************************************)
(* The inputs the model draws from                                         *)
(***************************************************************************)
\* Pixels per short image, pixels of a long run, operators per decoder
\* input, calls per behaviour.
MaxLen == 3

LongRun == 64

MaxOps == 2

MaxCalls == 2

\* (0,0,0,255); (64,0,0,255), which shares hash slot 53 with it; pixels a
\* Diff, a Luma and a wrapping Diff away from it; a pixel of another alpha.
Palette ==
    {InitPixel, Pixel_new(64, 0, 0, 255), Pixel_new(1, 1, 1, 255), Pixel_new(8, 10, 12, 255),
     Pixel_new(255, 255, 255, 255), Pixel_new(0, 0, 0, 0)}

SeqsUpTo(S, n) == UNION {[1..k -> S] : k \in 0..n}

Repeat(p, n) == [k \in 1..n |-> p]

ShortImages == SeqsUpTo(Palette, MaxLen)

LongImages == {Repeat(p, LongRun) \o t : p \in Palette, t \in SeqsUpTo(Palette, 1)}

\* A pending run ended by a pixel a Luma away from it, (100,100,100,255) to
\* (108,110,112,255).
LumaImages ==
    {Repeat(Pixel_new(100, 100, 100, 255), n) \o <<Pixel_new(108, 110, 112, 255)>> : n \in 1..2}

\* Runs of the initial prev: of 100 pixels, and of one less and one more than
\* twice 62 and one.
RunLens == {100, 124, 125}

RunImages == {Repeat(InitPixel, n) : n \in RunLens}

Images == ShortImages \cup LongImages \cup LumaImages \cup RunImages

\* What a call on a used object is given.
ReuseImages == SeqsUpTo(Palette, 2)

BigWidth == U32Of(4, 3, 2, 1)

BigHeight == U32Of(8, 7, 6, 5)

Dims ==
    {<<NatToU32(n), NatToU32(1)>> : n \in 0..MaxLen}
        \cup {<<NatToU32(1), NatToU32(2)>>, <<NatToU32(LongRun \div 2), NatToU32(2)>>,
              <<NatToU32(LongRun + 1), NatToU32(1)>>, <<BigWidth, BigHeight>>}

\* Decoder inputs: a header (whole, cut short, or of another magic), up to
\* MaxOps operators (whole or cut short), a tail.
HeaderOf(w, h, channels, colorspace) ==
    <<113, 111, 105, 102>> \o to_be_bytes(w) \o to_be_bytes(h) \o <<channels, colorspace>>

InputDims ==
    {<<NatToU32(0), NatToU32(5)>>, <<NatToU32(1), NatToU32(1)>>, <<NatToU32(2), NatToU32(1)>>,
     <<NatToU32(3), NatToU32(1)>>, <<U32Of(0, 0, 1, 0), U32Of(0, 0, 1, 0)>>,
     <<U32Of(1, 0, 0, 128), NatToU32(2)>>}

GoodHeaders ==
    {HeaderOf(d[1], d[2], 4, 0) : d \in InputDims}
        \cup {HeaderOf(NatToU32(n), NatToU32(1), 3, 1) : n \in 1..2}

BadHeaders ==
    {<<>>, <<113, 111, 105>>, <<113, 111, 105, 101, 0, 0, 0, 1, 0, 0, 0, 1, 4, 0>>,
     <<113, 111, 105, 102, 0, 0, 0, 1, 0, 0, 0, 1, 4>>}

Chunks ==
    {<<53>>, <<0>>, <<127>>, <<170, 106>>, <<192>>, <<193>>, <<253>>,
     <<254, 64, 0, 0>>, <<255, 1, 2, 3, 4>>, <<254, 64>>, <<170>>}

RECURSIVE Bodies(_)
Bodies(n) == IF n = 0 THEN {<<>>}
             ELSE Bodies(n - 1) \cup {b \o c : b \in Bodies(n - 1), c \in Chunks}

Tails ==
    {Footer, SubSeq(Footer, 1, 7), <<0, 0, 0, 0, 0, 0, 0, 2>>, Footer \o <<0>>, <<>>}

Inputs ==
    {h \o b \o t : h \in GoodHeaders, b \in Bodies(MaxOps), t \in Tails}
        \cup {h \o t : h \in BadHeaders, t \in Tails}

\* Fewer of them: an Index, Runs of 1, 2 and 62, an RGB, a Luma whole and
\* cut short; the footer, nothing, the footer and a byte.
LiveChunks == {<<53>>, <<192>>, <<193>>, <<253>>, <<254, 64, 0, 0>>, <<170, 106>>, <<170>>}

RECURSIVE LiveBodies(_)
LiveBodies(n) == IF n = 0 THEN {<<>>}
                 ELSE LiveBodies(n - 1) \cup {b \o c : b \in LiveBodies(n - 1), c \in LiveChunks}

LiveInputs ==
    {h \o b \o t : h \in GoodHeaders, b \in LiveBodies(MaxOps), t \in {Footer, <<>>, Footer \o <<0>>}}
        \cup BadHeaders

ReuseInputs ==
    {HeaderOf(NatToU32(n), NatToU32(1), 4, 0) \o b \o Footer : n \in 1..2, b \in Bodies(1)}

(***************************************************************************)
(* The operator codec on its own: a pixel against a predictor is turned    *)
(* into an operator (the selection of Encoder::encode), the operator into  *)
(* bytes (QoiOp::append_bytes), the bytes into an operator                 *)
(* (QoiOp::from_bytes) and the operator into a pixel (the match of         *)
(* Decoder::decode).  A call starts at any of the first three stages.      *)
(***************************************************************************)
\* The frame of such a call.  pc: "idle", "pixel", "op", "bytes", "parsed",
\* "applied", and the ends "panic" (an assertion of append_bytes), "none"
\* (from_bytes returned None), "index" (cache.get returned None).  from is
\* the stage the call started at, suffix the bytes that follow the
\* operator's, h the last value of Pixel::hash.
UnitIdle ==
    [pc |-> "idle", from |-> "idle", prev |-> InitPixel, pixel |-> InitPixel, h |-> 0,
     op |-> OpRun(1), suffix |-> <<>>, buf |-> <<>>, parsed |-> ParseNone, out |-> InitPixel]

\* Predictors, and for each the pixels a given delta away from it.
UnitPrevs ==
    {InitPixel, Pixel_new(255, 255, 255, 255), Pixel_new(100, 100, 100, 255),
     Pixel_new(255, 0, 128, 7), Pixel_new(0, 255, 1, 0)}

\* Deltas (red, green, blue) around the Diff range -2..1,
DiffDeltas == {<<dr, dg, db>> : dr \in {-2, 1}, dg \in -3..2, db \in -2..1}

\* and around the Luma range: green in -32..31, red - green and blue - green
\* in -8..7.
LumaDeltas ==
    {<<dg + x, dg, dg + y>> : dg \in {-33, -32, 10, 31, 32}, x \in {-9, -8, -2, 7, 8},
                              y \in {-8, 2, 7}}

UnitPixels(prev) ==
    {Pixel_new((prev.r + 256 + d[1]) % 256, (prev.g + 256 + d[2]) % 256,
               (prev.b + 256 + d[3]) % 256, (prev.a + da) % 256) :
        d \in DiffDeltas \cup LumaDeltas, da \in {0, 1}} \ {prev}

\* Operators whose fields are in the ranges of the data model.
UnitOps ==
    {OpRGB(r, g, b) : r \in {0, 255}, g \in {0, 64}, b \in {0, 254}}
        \cup {OpRGBA(r, g, b, a) : r \in {0, 255}, g \in {0, 192}, b \in {1}, a \in {0, 128, 255}}
        \cup {OpIndex(i) : i \in 0..63}
        \cup {OpDiff(dr, dg, db) : dr \in 0..3, dg \in 0..3, db \in 0..3}
        \cup {OpLuma(dg, x, y) : dg \in {0, 31, 42, 63}, x \in {0, 6, 15}, y \in {0, 10, 15}}
        \cup {OpRun(len) : len \in 1..62}

UnitSuffixes == {<<>>, <<0>>, <<254, 1>>, <<192, 0, 0, 0, 0, 0, 0, 0, 1>>}

\* Byte slices: every first byte, before 0 to 5 more.
UnitBytes ==
    {<<>>} \cup {<<head>> \o SubSeq(<<7, 128, 9, 255, 11>>, 1, n) : head \in 0..255, n \in 0..5}

(***************************************************************************)
(* The state machine: one Encoder, one Decoder, at most one call running.  *)
(* Whether integer overflow panics or wraps depends on the build           *)
(* (overflow checks are on in a debug build and off in a release build):   *)
(* a call that can overflow takes either outcome.                          *)
(***************************************************************************)
VARIABLES
    encoder,          \* the Encoder object
    decoder,          \* the Decoder object
    ecall,            \* the frame of the last call of encode
    dcall,            \* the frame of the last call of decode
    calls,            \* calls begun so far
    unit              \* the frame of a call of the operator codec on its own

vars == <<encoder, decoder, ecall, dcall, calls, unit>>

Running == ecall.pc = "body" \/ dcall.pc = "body"

Panicked == ecall.pc = "panic" \/ dcall.pc = "panic"

\* A program that encodes images and decodes what it encoded.
Init ==
    /\ \E d \in Dims : encoder = Encoder_new(d[1], d[2])
    /\ decoder = Decoder_new
    /\ ecall = EncIdle
    /\ dcall = DecIdle
    /\ calls = 0
    /\ unit = UnitIdle

\* encoder.encode(&img) is called; a used encoder is given a short image.
EncodeBegin ==
    /\ ~Running /\ ~Panicked
    /\ calls < MaxCalls
    /\ \E img \in (IF calls = 0 THEN Images ELSE ReuseImages) :
          ecall' = [EncodeBeginStep(encoder, img) EXCEPT !.fresh = (ecall.pc = "idle")]
    /\ dcall' = DecIdle
    /\ calls' = calls + 1
    /\ UNCHANGED <<encoder, decoder, unit>>

EncodePixel ==
    /\ ecall.pc = "body"
    /\ ecall.i <= Len(ecall.img)
    /\ LET s == EncodePixelStep(encoder, ecall)
       IN encoder' = s.enc /\ ecall' = s.call
    /\ UNCHANGED <<decoder, dcall, calls, unit>>

EncodeFinish ==
    /\ ecall.pc = "body"
    /\ ecall.i > Len(ecall.img)
    /\ \E checks \in BOOLEAN : ecall' = EncodeFinishStep(ecall, checks)
    /\ UNCHANGED <<encoder, decoder, dcall, calls, unit>>

\* decoder.decode(&data) is called on what encode returned
DecodeEncoded ==
    /\ ~Running /\ ~Panicked
    /\ calls < MaxCalls
    /\ ecall.pc = "done"
    /\ \E checks \in BOOLEAN :
          dcall' = [DecodeBeginStep(ecall.buf, checks) EXCEPT
                        !.fresh = (decoder = Decoder_new), !.from_encoder = TRUE]
    /\ calls' = calls + 1
    /\ UNCHANGED <<encoder, decoder, ecall, unit>>

\* decoder.decode(&data) is called on an arbitrary slice; a used decoder is
\* given a short one.
DecodeBegin ==
    /\ ~Running /\ ~Panicked
    /\ calls < MaxCalls
    /\ \E input \in (IF calls = 0 THEN Inputs ELSE ReuseInputs), checks \in BOOLEAN :
          dcall' = [DecodeBeginStep(input, checks) EXCEPT !.fresh = (calls = 0)]
    /\ calls' = calls + 1
    /\ UNCHANGED <<encoder, decoder, ecall, unit>>

DecodeOp ==
    /\ dcall.pc = "body"
    /\ MorePixels(dcall)
    /\ \E s \in {DecodeOpStep(decoder, dcall)} : decoder' = s.dec /\ dcall' = s.call
    /\ UNCHANGED <<encoder, ecall, calls, unit>>

DecodeFinish ==
    /\ dcall.pc = "body"
    /\ ~MorePixels(dcall)
    /\ \E call \in {DecodeFinishStep(dcall)} : dcall' = call
    /\ UNCHANGED <<encoder, decoder, ecall, calls, unit>>

Next ==
    \/ EncodeBegin
    \/ EncodePixel
    \/ EncodeFinish
    \/ DecodeEncoded
    \/ DecodeOp
    \/ DecodeFinish

Spec == Init /\ [][Next]_vars

\* A program that decodes arbitrary byte slices.
InitDecode ==
    /\ encoder = Encoder_new(NatToU32(1), NatToU32(1))
    /\ decoder = Decoder_new
    /\ ecall = EncIdle
    /\ dcall = DecIdle
    /\ calls = 0
    /\ unit = UnitIdle

NextDecode ==
    \/ DecodeBegin
    \/ DecodeOp
    \/ DecodeFinish

SpecDecode == InitDecode /\ [][NextDecode]_vars

\* The same program on fewer slices, and its progress: decode is sequential
\* code, so a call that has begun runs its loop and what follows the loop.
DecodeBeginLive ==
    /\ ~Running /\ ~Panicked
    /\ calls < MaxCalls
    /\ \E input \in (IF calls = 0 THEN LiveInputs ELSE ReuseInputs), checks \in BOOLEAN :
          dcall' = [DecodeBeginStep(input, checks) EXCEPT !.fresh = (calls = 0)]
    /\ calls' = calls + 1
    /\ UNCHANGED <<encoder, decoder, ecall, unit>>

NextDecodeLive ==
    \/ DecodeBeginLive
    \/ DecodeOp
    \/ DecodeFinish

SpecDecodeLive ==
    InitDecode /\ [][NextDecodeLive]_vars /\ WF_vars(DecodeOp) /\ WF_vars(DecodeFinish)

\* A program that calls the stages of the operator codec one after another.
InitUnit ==
    /\ encoder = Encoder_new(NatToU32(1), NatToU32(1))
    /\ decoder = Decoder_new
    /\ ecall = EncIdle
    /\ dcall = DecIdle
    /\ calls = 0
    /\ \/ \E prev \in UnitPrevs : \E pixel \in UnitPixels(prev) :
             unit = [UnitIdle EXCEPT !.pc = "pixel", !.from = "pixel", !.prev = prev,
                                     !.pixel = pixel]
       \/ \E op \in UnitOps, suffix \in UnitSuffixes :
             unit = [UnitIdle EXCEPT !.pc = "op", !.from = "op", !.op = op, !.suffix = suffix]
       \/ \E buf \in UnitBytes :
             unit = [UnitIdle EXCEPT !.pc = "bytes", !.from = "bytes", !.buf = buf]

\* The selection of Encoder::encode for a pixel that differs from prev, by an
\* encoder whose cache is the one Encoder::new made.
SelectOp ==
    /\ unit.pc = "pixel"
    /\ unit' = [unit EXCEPT !.pc = "op", !.h = hash(unit.pixel),
                            !.op = PixelOp(InitCache, unit.prev, unit.pixel)]
    /\ UNCHANGED <<encoder, decoder, ecall, dcall, calls>>

\* op.append_bytes(&mut buf) on an empty buf; the suffix follows.
AppendBytes ==
    /\ unit.pc = "op"
    /\ \E checks \in BOOLEAN :
          LET r == append_bytes(unit.op, <<>>, checks)
          IN unit' = IF r.ok THEN [unit EXCEPT !.pc = "bytes", !.buf = r.buf \o unit.suffix]
                     ELSE [unit EXCEPT !.pc = "panic"]
    /\ UNCHANGED <<encoder, decoder, ecall, dcall, calls>>

\* QoiOp::from_bytes(buf)
FromBytes ==
    /\ unit.pc = "bytes"
    /\ LET parsed == from_bytes(unit.buf)
       IN unit' = [unit EXCEPT !.pc = IF parsed.some THEN "parsed" ELSE "none",
                               !.parsed = parsed]
    /\ UNCHANGED <<encoder, decoder, ecall, dcall, calls>>

\* The match of Decoder::decode on the parsed operator, by a decoder whose
\* last pixel was prev.
ApplyOp ==
    /\ unit.pc = "parsed"
    /\ LET dec == [prev |-> unit.prev, cache |-> [InitCache EXCEPT ![hash(unit.prev)] = unit.prev]]
           op == unit.parsed.op
       IN unit' = IF op.tag = "Index" /\ op.f1 \notin DOMAIN dec.cache
                  THEN [unit EXCEPT !.pc = "index"]
                  ELSE LET pixel == OpPixel(dec, op)
                       IN [unit EXCEPT !.pc = "applied", !.out = pixel, !.h = hash(pixel)]
    /\ UNCHANGED <<encoder, decoder, ecall, dcall, calls>>

NextUnit ==
    \/ SelectOp
    \/ AppendBytes
    \/ FromBytes
    \/ ApplyOp

SpecUnit == InitUnit /\ [][NextUnit]_vars

(***************************************************************************)
(* The claims                                                              *)
(***************************************************************************)
\* The eight digits of a natural below 2^31.
NatToU64(n) == NatToU32(n) \o <<0, 0, 0, 0>>

\* A pixel count is exactly the declared width * height (the product taken
\* in the integers, not in u32).
ExactCount(n, width, height) == NatToU64(n) = FullMul(width, height)

\* The encoder's last call began on a fresh encoder with as many pixels as
\* its width * height, and the decoder's call, on a fresh decoder, was given
\* what that call returned.
RoundTripCall ==
    /\ ecall.pc = "done" /\ ecall.fresh
    /\ dcall.from_encoder /\ dcall.fresh
    /\ ExactCount(Len(ecall.img), encoder.width, encoder.height)

\* C1: round trip.  A fresh Decoder given what a fresh Encoder returned for
\* an image of width * height pixels returns, without failing, an Image of
\* exactly those pixels.
C1_RoundTrip ==
    (RoundTripCall /\ dcall.pc \in {"done", "panic"}) =>
        /\ dcall.pc = "done"
        /\ dcall.result = SomeImage(encoder.width, encoder.height, ecall.img)

\* C2: robustness.  decode of an arbitrary slice never panics, and an Image
\* it returns has exactly the declared width * height pixels.
C2_Robustness ==
    /\ dcall.pc # "panic"
    /\ (dcall.pc = "done" /\ dcall.result.some) =>
            ExactCount(Len(dcall.result.pixels), dcall.result.width, dcall.result.height)

\* C3: no carry-over.  Every call of encode and of decode starts from prev =
\* (0,0,0,255) and a cache of 64 times (0,0,0,255), and so returns what a
\* fresh object returns.
C3_NoCarryOver ==
    /\ (ecall.pc = "body" /\ ecall.i = 1) =>
            encoder.prev = InitPixel /\ encoder.cache = InitCache
    /\ (dcall.pc = "body" /\ Len(dcall.data) + HeaderLen = Len(dcall.input)) =>
            decoder.prev = InitPixel /\ decoder.cache = InitCache
    /\ ecall.pc = "done" =>
            \E checks \in BOOLEAN :
                ecall.buf = Encode(Encoder_new(encoder.width, encoder.height),
                                   ecall.img, checks).call.buf

\* C4: re-encode stability.  Encoding an image, decoding the bytes and
\* encoding the decoded pixels, each on a fresh object, gives the bytes of
\* the first encoding.
C4_ReencodeStable ==
    (RoundTripCall /\ dcall.pc = "done" /\ dcall.result.some) =>
        \A checks \in BOOLEAN :
            LET again == Encode(Encoder_new(encoder.width, encoder.height),
                                dcall.result.pixels, checks).call
            IN again.pc = "done" /\ again.buf = ecall.buf

\* The field ranges the serializer asserts, and a Run of at least one pixel.
OpInRange(op) ==
    CASE op.tag = "Index" -> op.f1 <= 62
      [] op.tag = "Diff" -> op.f1 <= 3 /\ op.f2 <= 3 /\ op.f3 <= 3
      [] op.tag = "Luma" -> op.f1 < 64 /\ op.f2 < 16 /\ op.f3 < 16
      [] op.tag = "Run" -> 1 <= op.f1 /\ op.f1 <= 62
      [] OTHER -> op.f1 \in U8 /\ op.f2 \in U8 /\ op.f3 \in U8 /\ op.f4 \in U8

\* C5: the encoder never fails.  No call of encode ends in a failed
\* assertion: every operator it has pushed is in the ranges append_bytes
\* asserts, every Run has a length in 1..62, and so has a pending run.
C5_EncoderNeverFails ==
    /\ ecall.pc # "panic"
    /\ \A k \in 1..Len(ecall.ops) : OpInRange(ecall.ops[k])
    /\ ecall.is_running => (1 <= ecall.run_length /\ ecall.run_length <= 62)

\* C5's case: a call has returned after splitting a run and pushing an Index.
C5_Witness ==
    /\ ecall.pc = "done"
    /\ \E j, k \in 1..Len(ecall.ops) :
          /\ j < k
          /\ ecall.ops[j] = OpRun(62)
          /\ ecall.ops[j + 1].tag = "Run"
          /\ ecall.ops[k].tag = "Index"

\* The operators a byte sequence parses to, and whether it parses to its end.
RECURSIVE ParseAll(_)
ParseAll(bytes) ==
    IF bytes = <<>> THEN [ok |-> TRUE, ops |-> <<>>]
    ELSE LET p == from_bytes(bytes)
         IN IF ~p.some THEN [ok |-> FALSE, ops |-> <<>>]
            ELSE LET rest == ParseAll(p.rest)
                 IN [ok |-> rest.ok, ops |-> <<p.op>> \o rest.ops]

\* C6: framing.  What encode returns is 'qoif', the width and the height
\* most significant byte first, the bytes 4 and 0, the bytes of the
\* operators in the order pushed, and the footer 0 0 0 0 0 0 0 1; a fresh
\* encoder's stream for the one pixel (0,0,0,255) is the byte 0xC0.
C6_Framing ==
    ecall.pc = "done" =>
        LET out == ecall.buf
            n == Len(out)
        IN /\ n >= 22
           /\ SubSeq(out, 1, 4) = <<113, 111, 105, 102>>
           /\ out[5] = encoder.width[4] /\ out[6] = encoder.width[3]
           /\ out[7] = encoder.width[2] /\ out[8] = encoder.width[1]
           /\ out[9] = encoder.height[4] /\ out[10] = encoder.height[3]
           /\ out[11] = encoder.height[2] /\ out[12] = encoder.height[1]
           /\ out[13] = 4 /\ out[14] = 0
           /\ ParseAll(SubSeq(out, 15, n - 8)) = [ok |-> TRUE, ops |-> ecall.ops]
           /\ SubSeq(out, n - 7, n) = <<0, 0, 0, 0, 0, 0, 0, 1>>
           /\ (ecall.fresh /\ ecall.img = <<InitPixel>>) => SubSeq(out, 15, n - 8) = <<192>>
           /\ (ecall.fresh /\ ecall.img = <<InitPixel>> /\ encoder.width = NatToU32(1)
                   /\ encoder.height = NatToU32(1)) =>
                 out = <<113, 111, 105, 102, 0, 0, 0, 1, 0, 0, 0, 1, 4, 0, 192,
                         0, 0, 0, 0, 0, 0, 0, 1>>

\* C6's case: a call has returned the frame of a width and a height of four
\* different bytes each around several operators.
C6_Witness ==
    /\ ecall.pc = "done"
    /\ encoder.width = BigWidth /\ encoder.height = BigHeight
    /\ Len(ecall.ops) >= 3

\* Of two digit sequences of one length, least significant digit first: the
\* first is the smaller number.
RECURSIVE DigitsLess(_, _)
DigitsLess(x, y) ==
    IF x = <<>> THEN FALSE
    ELSE LET n == Len(x)
         IN x[n] < y[n] \/ (x[n] = y[n] /\ DigitsLess(SubSeq(x, 1, n - 1), SubSeq(y, 1, n - 1)))

\* C7: pixel-count errors.  decode returns no Image when the operators have
\* pushed more pixels than the declared width * height, and none when it has
\* pushed fewer (the input ran out first).
C7_PixelCountErrors ==
    dcall.pc = "done" =>
        LET count == NatToU64(Len(dcall.pixels))
            declared == FullMul(dcall.width, dcall.height)
        IN /\ DigitsLess(declared, count) => ~dcall.result.some
           /\ DigitsLess(count, declared) => ~dcall.result.some

\* C8: the footer.  Once exactly width * height pixels are decoded, decode
\* returns the Image if and only if what is left of the input is the eight
\* bytes 0 0 0 0 0 0 0 1.
C8_FooterCheck ==
    (/\ dcall.pc = "done"
     /\ dcall.ret \in {"count", "footer", "ok"}
     /\ ExactCount(Len(dcall.pixels), dcall.width, dcall.height)) =>
        /\ dcall.result.some <=> dcall.data = <<0, 0, 0, 0, 0, 0, 0, 1>>
        /\ dcall.result.some =>
              dcall.result = SomeImage(dcall.width, dcall.height, dcall.pixels)

\* C8's case: all the pixels are decoded and an extra byte follows the footer.
C8_Witness ==
    /\ dcall.pc = "done"
    /\ ExactCount(Len(dcall.pixels), dcall.width, dcall.height)
    /\ Len(dcall.pixels) >= 2
    /\ dcall.data = <<0, 0, 0, 0, 0, 0, 0, 1, 0>>
    /\ ~dcall.result.some

\* Values of the channels and colorspace bytes.
HeaderBytes == {0, 3, 4, 255}

\* C9: the header.  decode returns no Image for an input of fewer than 14
\* bytes or of another magic than 'qoif'; and the call's outcome (the value
\* returned or the panic, and the decoder after it) is that of the same
\* input with any other channels and colorspace bytes.
C9_HeaderCheck ==
    /\ (/\ dcall.pc \in {"done", "panic"}
        /\ \/ Len(dcall.input) < 14
           \/ SubSeq(dcall.input, 1, 4) # <<113, 111, 105, 102>>) =>
            dcall.pc = "done" /\ ~dcall.result.some /\ dcall.pixels = <<>>
    /\ (dcall.pc \in {"done", "panic"} /\ dcall.fresh /\ Len(dcall.input) >= 14) =>
            \A c, cs \in HeaderBytes :
                \E checks \in BOOLEAN :
                    LET other == Decode(Decoder_new,
                                        [dcall.input EXCEPT ![13] = c, ![14] = cs], checks)
                    IN /\ other.call.pc = dcall.pc
                       /\ other.call.result = dcall.result
                       /\ other.dec = decoder

\* C9's case: an input whose channels and colorspace bytes are 3 and 1 has
\* been decoded to an Image of two pixels.
C9_Witness ==
    /\ dcall.pc = "done" /\ dcall.fresh
    /\ Len(dcall.input) >= 14
    /\ dcall.input[13] = 3 /\ dcall.input[14] = 1
    /\ dcall.result.some
    /\ Len(dcall.result.pixels) = 2

\* C10: predictor equality.  The decoder, having produced n pixels from what
\* the encoder returned, has the prev and the cache of the encoder that has
\* consumed those n pixels.
C10_PredictorEquality ==
    (/\ RoundTripCall
     /\ dcall.pc \in {"body", "done"}
     /\ Len(dcall.pixels) <= Len(ecall.img)) =>
        LET enc == Encode(Encoder_new(encoder.width, encoder.height),
                          SubSeq(ecall.img, 1, Len(dcall.pixels)), FALSE).enc
        IN decoder.prev = enc.prev /\ decoder.cache = enc.cache

\* C11: cache update.  In the encoder, after an RGB, RGBA, Diff or Luma
\* operator is pushed for pixel p, prev = p and cache[hash(p)] = p; in the
\* decoder, after an operator has produced pixel p, prev = p and
\* cache[hash(p)] = p.
C11_CacheUpdate ==
    /\ (/\ ecall.pc = "body" /\ ecall.i > 1 /\ ~ecall.is_running
        /\ ecall.ops # <<>>
        /\ ecall.ops[Len(ecall.ops)].tag \in {"RGB", "RGBA", "Diff", "Luma"}) =>
            LET p == ecall.img[ecall.i - 1]
            IN encoder.prev = p /\ encoder.cache[hash(p)] = p
    /\ (dcall.pc = "body" /\ dcall.pixels # <<>>) =>
            LET p == dcall.pixels[Len(dcall.pixels)]
            IN decoder.prev = p /\ decoder.cache[hash(p)] = p

\* The difference of two channels as a byte, modulo 256.
Delta(x, y) == (x - y + 256) % 256

\* The rules of the selection for a pixel p that differs from prev, first
\* match first: Index, Diff, Luma, RGB, RGBA.
Selected(cache, prev, p) ==
    LET dr == Delta(p.r, prev.r)
        dg == Delta(p.g, prev.g)
        db == Delta(p.b, prev.b)
        same_alpha == p.a = prev.a
        b2(d) == (d + 2) % 256
        luma_g == (dg + 32) % 256
        luma_r == (dr + 256 - dg + 8) % 256
        luma_b == (db + 256 - dg + 8) % 256
    IN CASE cache[hash(p)] = p -> [tag |-> "Index", f1 |-> hash(p), f2 |-> 0, f3 |-> 0, f4 |-> 0]
         [] cache[hash(p)] # p /\ same_alpha /\ {b2(dr), b2(dg), b2(db)} \subseteq 0..3 ->
                [tag |-> "Diff", f1 |-> b2(dr), f2 |-> b2(dg), f3 |-> b2(db), f4 |-> 0]
         [] cache[hash(p)] # p /\ same_alpha /\ ~({b2(dr), b2(dg), b2(db)} \subseteq 0..3)
                /\ luma_g \in 0..63 /\ luma_r \in 0..15 /\ luma_b \in 0..15 ->
                [tag |-> "Luma", f1 |-> luma_g, f2 |-> luma_r, f3 |-> luma_b, f4 |-> 0]
         [] cache[hash(p)] # p /\ same_alpha /\ ~({b2(dr), b2(dg), b2(db)} \subseteq 0..3)
                /\ ~(luma_g \in 0..63 /\ luma_r \in 0..15 /\ luma_b \in 0..15) ->
                [tag |-> "RGB", f1 |-> p.r, f2 |-> p.g, f3 |-> p.b, f4 |-> 0]
         [] cache[hash(p)] # p /\ ~same_alpha ->
                [tag |-> "RGBA", f1 |-> p.r, f2 |-> p.g, f3 |-> p.b, f4 |-> p.a]

\* What one iteration of the encoder's loop does to the operators pushed.
SelectionStep ==
    (ecall.pc = "body" /\ ecall'.i = ecall.i + 1) =>
        LET p == ecall.img[ecall.i]
            pending == IF ecall.is_running THEN ecall.run_length ELSE 0
        IN IF p = encoder.prev
           THEN /\ ecall'.pc = "body" /\ ecall'.is_running
                /\ \/ ecall'.ops = ecall.ops /\ ecall'.run_length = pending + 1
                   \/ /\ pending = 62
                      /\ ecall'.ops = Append(ecall.ops, [tag |-> "Run", f1 |-> 62, f2 |-> 0,
                                                         f3 |-> 0, f4 |-> 0])
                      /\ ecall'.run_length = 1
           ELSE /\ ecall'.pc = "body" /\ ~ecall'.is_running
                /\ ecall'.ops =
                      ecall.ops
                        \o (IF ecall.is_running
                            THEN <<[tag |-> "Run", f1 |-> pending, f2 |-> 0, f3 |-> 0, f4 |-> 0]>>
                            ELSE <<>>)
                        \o <<Selected(encoder.cache, encoder.prev, p)>>

\* C12: operator selection priority.  A pixel equal to prev extends or opens
\* the run and no operator is pushed for it; for any other pixel the pending
\* run is pushed as Run{len} and then exactly one operator, the first that
\* matches of Index, Diff, Luma, RGB, RGBA; prev (100,100,100,255) and pixel
\* (108,110,112,255) give Luma{42,6,10}.
C12_SelectionPriority == [][SelectionStep]_vars

\* C12's case: a call has returned in which a pending run was flushed before
\* the Luma{42,6,10} of (108,110,112,255) after (100,100,100,255).
C12_Witness ==
    /\ ecall.pc = "done"
    /\ \E j \in 1..(Len(ecall.ops) - 1) :
          /\ ecall.ops[j].tag = "Run"
          /\ ecall.ops[j + 1] = OpLuma(42, 6, 10)
    /\ ecall.img # <<>>
    /\ ecall.img[Len(ecall.img)] = Pixel_new(108, 110, 112, 255)

\* The operators of a stretch of n >= 1 pixels equal to prev: floor((n-1)/62)
\* times Run{62}, then one Run of what is left.
RunSplit(n) ==
    LET full == (n - 1) \div 62
    IN [k \in 1..full |-> [tag |-> "Run", f1 |-> 62, f2 |-> 0, f3 |-> 0, f4 |-> 0]]
         \o <<[tag |-> "Run", f1 |-> n - 62 * full, f2 |-> 0, f3 |-> 0, f4 |-> 0]>>

\* Pixel j of img equals the pixel before it (prev0 before the first).
SameAsBefore(img, prev0, j) == img[j] = (IF j = 1 THEN prev0 ELSE img[j - 1])

\* The length of the maximal stretch of such pixels that starts at j.
RECURSIVE StretchLen(_, _, _)
StretchLen(img, prev0, j) ==
    IF j > Len(img) \/ ~SameAsBefore(img, prev0, j) THEN 0
    ELSE 1 + StretchLen(img, prev0, j + 1)

\* The Run operators of img from pixel j on, with "other" in the place of
\* the operator of each pixel that differs from the one before it.
RECURSIVE RunsFrom(_, _, _)
RunsFrom(img, prev0, j) ==
    IF j > Len(img) THEN <<>>
    ELSE LET n == StretchLen(img, prev0, j)
         IN IF n = 0 THEN <<"other">> \o RunsFrom(img, prev0, j + 1)
            ELSE RunSplit(n) \o RunsFrom(img, prev0, j + n)

\* A sequence of operators with "other" in the place of all but the Runs.
RunsOf(ops) == [k \in 1..Len(ops) |-> IF ops[k].tag = "Run" THEN ops[k] ELSE "other"]

\* C13: run splitting.  In what encode returns, every maximal stretch of n
\* pixels equal to prev is floor((n-1)/62) operators Run{62} and then one
\* Run of the rest, the last stretch included, before the footer; a fresh
\* encoder's stream for 100 pixels (0,0,0,255) is 0xFD 0xE5 and for 2 is
\* 0xC1.
C13_RunSplitting ==
    ecall.pc = "done" =>
        LET n == Len(ecall.buf)
            stream == SubSeq(ecall.buf, 15, n - 8)
        IN /\ RunsOf(ParseAll(stream).ops) = RunsFrom(ecall.img, ecall.first_prev, 1)
           /\ SubSeq(ecall.buf, n - 7, n) = <<0, 0, 0, 0, 0, 0, 0, 1>>
           /\ (ecall.fresh /\ ecall.img = [k \in 1..100 |-> InitPixel]) => stream = <<253, 229>>
           /\ (ecall.fresh /\ ecall.img = [k \in 1..2 |-> InitPixel]) => stream = <<193>>

\* C13's case: encode has returned for 100 pixels equal to the initial prev.
C13_Witness ==
    /\ ecall.pc = "done" /\ ecall.fresh
    /\ ecall.img = [k \in 1..100 |-> InitPixel]
    /\ ecall.ops = <<OpRun(62), OpRun(38)>>

\* C14: Diff and Luma inverses.  When the encoder's selection gives a Diff or
\* a Luma for pixel p against prev, the decoder's arithmetic on that
\* operator (serialized and parsed back) and the same prev gives p, also
\* when a channel wraps around 0/255.
C14_DeltaInverses ==
    (/\ unit.pc = "applied" /\ unit.from = "pixel"
     /\ unit.op.tag \in {"Diff", "Luma"}) =>
        /\ unit.parsed.op = unit.op
        /\ unit.out = unit.pixel

\* C14's case: a Diff or a Luma has been decoded across the wrap, from a red
\* of 255 to a red of 0 or 1.
C14_Witness ==
    /\ unit.pc = "applied" /\ unit.from = "pixel"
    /\ unit.prev.r = 255 /\ unit.pixel.r \in {0, 1}
    /\ unit.op.tag \in {"Diff", "Luma"}
    /\ unit.out = unit.pixel

\* The bytes of an operator in the format: the 8-bit tags 0xFE and 0xFF
\* before the channels, the 2-bit tags 00, 01, 10, 11 above the fields.
Layout(op) ==
    CASE op.tag = "RGB" -> <<254, op.f1, op.f2, op.f3>>
      [] op.tag = "RGBA" -> <<255, op.f1, op.f2, op.f3, op.f4>>
      [] op.tag = "Index" -> <<op.f1>>
      [] op.tag = "Diff" -> <<64 + 16 * op.f1 + 4 * op.f2 + op.f3>>
      [] op.tag = "Luma" -> <<128 + op.f1, 16 * op.f2 + op.f3>>
      [] op.tag = "Run" -> <<192 + (op.f1 - 1)>>

\* C15: operator serialization round trip.  For an operator whose fields are
\* in the ranges of the data model (Index 0..63, Diff 0..3, Luma 0..63 and
\* 0..15, Run 1..62) append_bytes does not fail and writes the bytes of the
\* format, and from_bytes of those bytes and any suffix returns the operator
\* and the suffix.
C15_SerializeRoundTrip ==
    unit.from = "op" =>
        /\ unit.pc \notin {"panic", "none"}
        /\ unit.pc \in {"bytes", "parsed", "applied"} => unit.buf = Layout(unit.op) \o unit.suffix
        /\ unit.pc \in {"parsed", "applied"} =>
              unit.parsed = [some |-> TRUE, op |-> unit.op, rest |-> unit.suffix]

\* The bytes the operator that starts with a given byte takes.
BytesNeeded(head) ==
    IF head = 254 THEN 4
    ELSE IF head = 255 THEN 5
    ELSE IF head \in 128..191 THEN 2
    ELSE 1

\* C16: parse contract.  from_bytes returns None exactly when a byte of the
\* operator is missing (an empty slice, fewer than 4 bytes of an RGB, 5 of an
\* RGBA, 2 of a Luma); otherwise it returns the operator of the leading bytes
\* and the slice without them.  0xFE and 0xFF are RGB and RGBA, never Run: a
\* parsed Run has a length in 1..62, a parsed Index an index in 0..63, and
\* the cache lookup by it does not fail.
C16_ParseContract ==
    unit.pc \in {"parsed", "none", "applied", "index"} =>
        LET b == unit.buf
            need == IF b = <<>> THEN 1 ELSE BytesNeeded(b[1])
        IN /\ unit.pc = "none" <=> Len(b) < need
           /\ unit.pc # "none" =>
                 /\ unit.parsed.some
                 /\ Layout(unit.parsed.op) = SubSeq(b, 1, need)
                 /\ unit.parsed.rest = SubSeq(b, need + 1, Len(b))
                 /\ b[1] = 254 <=> unit.parsed.op.tag = "RGB"
                 /\ b[1] = 255 <=> unit.parsed.op.tag = "RGBA"
                 /\ unit.parsed.op.tag = "Run" => unit.parsed.op.f1 \in 1..62
                 /\ unit.parsed.op.tag = "Index" => unit.parsed.op.f1 \in 0..63
           /\ unit.pc # "index"

\* C16's case: a slice that starts with 0xFE has been parsed as an RGB, with
\* bytes left after it.
C16_Witness ==
    /\ unit.pc = "parsed" /\ unit.from = "bytes"
    /\ unit.buf[1] = 254
    /\ unit.parsed.op.tag = "RGB"
    /\ Len(unit.parsed.rest) = 2

\* s is what is left of t after some of its leading elements.
IsSuffix(s, t) == Len(s) <= Len(t) /\ s = SubSeq(t, Len(t) - Len(s) + 1, Len(t))

IsPrefix(s, t) == Len(s) <= Len(t) /\ s = SubSeq(t, 1, Len(s))

\* The steps of a decode call, phase by phase.
DecodePhases ==
    \* the header: the call goes on to the operators, or ends
    /\ (dcall.pc \in {"idle", "done", "panic"} /\ dcall' # dcall) =>
          /\ calls' = calls + 1
          /\ dcall'.pixels = <<>>
          /\ dcall'.pc \in {"body", "done", "panic"}
          /\ dcall'.pc = "done" => (dcall'.ret \in {"short", "magic"} /\ ~dcall'.result.some)
          /\ dcall'.pc = "body" => (Len(dcall'.input) >= 14
                                     /\ dcall'.data = SubSeq(dcall'.input, 15, Len(dcall'.input)))
    \* the operators, then the footer
    /\ (dcall.pc = "body" /\ dcall' # dcall) =>
          /\ dcall'.input = dcall.input /\ calls' = calls
          /\ \/ \* an operator: at least one byte consumed, at least one pixel produced
                /\ dcall'.pc = "body"
                /\ Len(dcall'.data) < Len(dcall.data) /\ IsSuffix(dcall'.data, dcall.data)
                /\ Len(dcall'.pixels) > Len(dcall.pixels) /\ IsPrefix(dcall.pixels, dcall'.pixels)
             \/ \* a parse failure: the error, nothing more consumed
                /\ dcall'.pc = "done" /\ dcall'.ret \in {"parse", "index"}
                /\ ~dcall'.result.some
                /\ dcall'.data = dcall.data /\ dcall'.pixels = dcall.pixels
             \/ \* the count and the footer: the end of the call
                /\ dcall'.pc = "done" /\ dcall'.ret \in {"count", "footer", "ok"}
                /\ dcall'.ret = "ok" <=> dcall'.result.some
                /\ dcall'.data = dcall.data /\ dcall'.pixels = dcall.pixels

\* C17: decoder phases and termination.  A decode call goes through the
\* header, zero or more operators, the footer and its end in that order; a
\* parse failure ends it in an error and nothing more is consumed; each
\* operator consumes at least one byte and produces at least one pixel; and
\* the call ends.
C17_PhasesAndTermination ==
    /\ [][DecodePhases]_vars
    /\ (dcall.pc = "body") ~> (dcall.pc = "done")

\* C17's case: a call has gone through the header, operators of three
\* pixels and the footer, and returned the Image.
C17_Witness ==
    /\ dcall.pc = "done" /\ dcall.ret = "ok"
    /\ dcall.result.some
    /\ Len(dcall.pixels) = 3

\* The operators the call has applied: those of the bytes between the header
\* and what is left of the input.
AppliedOps(call) ==
    ParseAll(SubSeq(call.input, 15, Len(call.input) - Len(call.data))).ops

\* C18: alpha without RGBA.  While a call on a fresh Decoder has applied no
\* RGBA operator, prev and the 64 cache entries have alpha 255, and so has
\* every pixel decoded, whatever RGB, Index, Diff, Luma and Run operators
\* were applied.
C18_AlphaWithoutRGBA ==
    (/\ dcall.pc \in {"body", "done"} /\ dcall.fresh
     /\ \A k \in 1..Len(AppliedOps(dcall)) : AppliedOps(dcall)[k].tag # "RGBA") =>
        /\ decoder.prev.a = 255
        /\ \A i \in 0..63 : decoder.cache[i].a = 255
        /\ \A k \in 1..Len(dcall.pixels) : dcall.pixels[k].a = 255

\* C18's case: a fresh decoder has returned an Image after an RGB and
\* another operator that is no RGBA.
C18_Witness ==
    /\ dcall.pc = "done" /\ dcall.fresh /\ dcall.result.some
    /\ Len(AppliedOps(dcall)) = 2
    /\ AppliedOps(dcall)[1].tag = "RGB"
    /\ AppliedOps(dcall)[2].tag \in {"Index", "Luma", "Diff", "Run"}

\* (r*3 + g*5 + b*7 + a*11) in the integers, modulo 256 and then modulo 64.
HashValue(p) == ((p.r * 3 + p.g * 5 + p.b * 7 + p.a * 11) % 256) % 64

\* C19: hash.  Pixel::hash of (r,g,b,a) is ((r*3 + g*5 + b*7 + a*11) mod 256)
\* mod 64, a value in 0..63; (0,0,0,255) hashes to 53.
C19_Hash ==
    /\ unit.h \in 0..63
    /\ (unit.from = "pixel" /\ unit.pc \in {"op", "bytes", "parsed", "none", "panic"}) =>
            /\ unit.h = HashValue(unit.pixel)
            /\ unit.pixel = [r |-> 0, g |-> 0, b |-> 0, a |-> 255] => unit.h = 53
    /\ unit.pc = "applied" =>
            /\ unit.h = HashValue(unit.out)
            /\ unit.out = [r |-> 0, g |-> 0, b |-> 0, a |-> 255] => unit.h = 53

\* C19's case: the hash of (0,0,0,255) has been taken, and is 53.
C19_Witness ==
    /\ unit.from = "pixel" /\ unit.pc = "op"
    /\ unit.pixel = [r |-> 0, g |-> 0, b |-> 0, a |-> 255]
    /\ unit.h = 53

\* The pixels a sequence of operators accounts for: len for a Run, 1 for any
\* other operator.
RECURSIVE PixelsOf(_)
PixelsOf(ops) ==
    IF ops = <<>> THEN 0
    ELSE (IF ops[1].tag = "Run" THEN ops[1].f1 ELSE 1) + PixelsOf(Tail(ops))

\* C20: the pixel count is preserved.  The operators encode emits for n
\* pixels account for exactly n pixels; so when n is width * height a fresh
\* Decoder given the encoder's output does not fail and returns an Image of
\* that width and height and of n pixels, whether or not their values are
\* those encoded.
C20_PixelCount ==
    /\ ecall.pc = "done" =>
          /\ PixelsOf(ecall.ops) = Len(ecall.img)
          /\ PixelsOf(ParseAll(SubSeq(ecall.buf, 15, Len(ecall.buf) - 8)).ops) = Len(ecall.img)
    /\ (/\ ecall.pc = "done"
        /\ dcall.from_encoder /\ dcall.fresh
        /\ dcall.pc \in {"done", "panic"}
        /\ ExactCount(Len(ecall.img), encoder.width, encoder.height)) =>
          /\ dcall.pc = "done"
          /\ dcall.result.some
          /\ dcall.result.width = encoder.width /\ dcall.result.height = encoder.height
          /\ Len(dcall.result.pixels) = Len(ecall.img)

\* C20's case: the decoder has returned an Image of as many pixels as were
\* encoded, with a Run among the operators, and not all of the values encoded.
C20_Witness ==
    /\ ecall.pc = "done"
    /\ dcall.from_encoder /\ dcall.fresh /\ dcall.pc = "done"
    /\ dcall.result.some
    /\ \E k \in 1..Len(ecall.ops) : ecall.ops[k].tag = "Run"
    /\ Len(dcall.result.pixels) = Len(ecall.img)
    /\ dcall.result.pixels # ecall.img

=============================================================================
